---- MODULE Spec2Model ----
(***************************************************************************)
(* S3ListBucketStream: a Readable stream that lists the objects of an S3   *)
(* bucket by following the continuation tokens of listObjectsV2.           *)
(*                                                                         *)
(* Two class files are modelled.  impl = "index" is src/src/index.ts (no   *)
(* fullMetadata option, always pushes the whole record, skips nullish      *)
(* entries, emits 'prefix').  impl = "part_000" is src/unnamed/part_000    *)
(* (fullMetadata option, no nullish check, no 'prefix').                   *)
(*                                                                         *)
(* JavaScript values are tagged records so that values of different types  *)
(* can be told apart: undefined, numbers held in nullable fields, strings  *)
(* and arrays held in nullable fields.                                     *)
(***************************************************************************)
EXTENDS Integers, Sequences, FiniteSets, TLC

VARIABLES
    impl,               \* which class file runs
    options,            \* the constructor's options argument (part_000 only)
    listObjectsV2args,  \* this._listObjectsV2args (defaults merged in)
    lastResponse,       \* this._lastResponse
    currentIndex,       \* this._currentIndex
    stopped,            \* this._stopped
    pc,                 \* position of the one _startRead frame
    params,             \* params of the listObjectsV2 call in flight
    requests,           \* every params object the provider received
    responses,          \* every page the provider returned
    log,                \* everything the stream produced, in order
    lastOp              \* the handler that ran last

vars == <<impl, options, listObjectsV2args, lastResponse, currentIndex,
          stopped, pc, params, requests, responses, log, lastOp>>

config == <<impl, options, listObjectsV2args>>

(***************************************************************************)
(* Bounds of the model.                                                    *)
(***************************************************************************)
MaxPages == 2

MaxItems == 2

MaxPrefixes == 2

\* Pages of a run that depart from createPage: an absent entry in Contents,
\* or a CommonPrefixes field.
MaxIrregular == 1

(***************************************************************************)
(* JavaScript values.                                                      *)
(***************************************************************************)
Undefined == [t |-> "undefined"]

Num(n) == [t |-> "number", v |-> n]

Str(s) == [t |-> "string", v |-> s]

Arr(s) == [t |-> "array", v |-> s]

\* {...a, ...b} and Object.assign({}, a, b): own properties of b win, also
\* when their value is undefined.
Merge(a, b) == [k \in (DOMAIN a) \cup (DOMAIN b) |-> IF k \in DOMAIN b THEN b[k] ELSE a[k]]

EmptyObject == [k \in {} |-> Undefined]

defaultListObjectsV2Options == [MaxKeys |-> 1000]

defaultOptions == [fullMetadata |-> FALSE]

bucket == "some-bucket"

bucketPrefix == "/some/prefix"

(***************************************************************************)
(* The listing provider: MockS3 and createPage of the test file, widened   *)
(* to what ListObjectsV2Output allows (absent entries, CommonPrefixes).    *)
(***************************************************************************)
\* A template string `${a}${n}${b}`.
Text(a, n, b) == Str(<<a, n, b>>)

Item(k) == [t |-> "object", ETag |-> Text("etag-", k, ""), Key |-> Text("", k, ".jpg"),
            Size |-> k * 100, StorageClass |-> "STANDARD"]

\* createPage(numItems, startCount, last), with an absent entry at `hole`
\* (0: none) and the CommonPrefixes field `prefixes`.
createPage(numItems, startCount, last, hole, prefixes) ==
    [Contents |-> [i \in 1..numItems |->
                      IF i = hole THEN Undefined ELSE Item(i - 1 + startCount)],
     IsTruncated |-> ~last,
     KeyCount |-> numItems,
     NextContinuationToken |-> IF last THEN Undefined
                              ELSE Text("token-", numItems + startCount, ""),
     CommonPrefixes |-> prefixes]

SomeError == [t |-> "Error", message |-> "some error"]

TypeError == [t |-> "TypeError", message |-> "Cannot read property 'Key' of undefined"]

RECURSIVE CountEntries(_)
CountEntries(pages) ==
    IF pages = <<>> THEN 0
    ELSE Len(pages[1].Contents) + CountEntries(Tail(pages))

Holes(page) == {i \in 1..Len(page.Contents) : page.Contents[i] = Undefined}

Irregular(page) == Holes(page) # {} \/ page.CommonPrefixes # Undefined

RECURSIVE CountIrregular(_)
CountIrregular(pages) ==
    IF pages = <<>> THEN 0
    ELSE (IF Irregular(pages[1]) THEN 1 ELSE 0) + CountIrregular(Tail(pages))

PrefixList(page, n) == Arr([i \in 1..n |-> [Prefix |-> Text("dir-", page * 10 + i, "/")]])

\* The pages the provider may return to the call now in flight: the pages
\* of createPage, continuing the key numbering, the last one allowed at any
\* point and forced at MaxPages; and, MaxIrregular times in a run, such a
\* page with one entry absent or with CommonPrefixes (empty, or MaxPrefixes
\* groupings).
NextPages ==
    LET pageNo == Len(responses) + 1
        start == CountEntries(responses)
        lasts == {b \in BOOLEAN : pageNo >= MaxPages => b}
        more == CountIrregular(responses) < MaxIrregular
    IN { createPage(n, start, last, 0, Undefined) : n \in 0..MaxItems, last \in lasts }
       \cup { createPage(n, start, last, hole, Undefined) :
                n \in {m \in 1..MaxItems : more}, last \in lasts, hole \in 1..MaxItems }
       \cup { createPage(n, start, last, 0, PrefixList(pageNo, k)) :
                n \in {m \in 0..MaxItems : more}, last \in lasts, k \in {0, MaxPrefixes} }

(***************************************************************************)
(* What the stream produces: notifications, pushes and provider calls.     *)
(***************************************************************************)
Null == [t |-> "null"]

Restarted == [ev |-> "restarted", flag |-> TRUE]

Stopped == [ev |-> "stopped", flag |-> TRUE]

\* Faulty variant: the 'page' notification carries the response only.
PageEvDataOnly(p, d) == [ev |-> "page", params |-> Undefined, data |-> d]

PageEv(p, d) == [ev |-> "page", params |-> p, data |-> d]

PrefixEv(x) == [ev |-> "prefix", prefix |-> x]

ErrorEv(e) == [ev |-> "error", err |-> e]

PushEv(c, r) == [ev |-> "push", chunk |-> c, ret |-> r]

CallEv(p) == [ev |-> "listObjectsV2", params |-> p]

(***************************************************************************)
(* constructor                                                             *)
(***************************************************************************)
CallerArgs ==
    { EmptyObject,
      [MaxKeys |-> 2, Bucket |-> "other-bucket", Prefix |-> "/other",
       ContinuationToken |-> Text("token-", 99, "")] }

mergedOptions == Merge(defaultOptions, options)

fullMetadata == mergedOptions.fullMetadata

\* Faulty variant: the constructor starts the stream running and issues the
\* first listing call.
ConstructedEager(i, o, a) ==
    /\ impl = i
    /\ options = o
    /\ listObjectsV2args = Merge(defaultListObjectsV2Options, a)
    /\ lastResponse = Undefined
    /\ currentIndex = Undefined
    /\ stopped = FALSE
    /\ pc = "await"
    /\ params = Merge(listObjectsV2args,
                      [Bucket |-> bucket, Prefix |-> bucketPrefix,
                       ContinuationToken |-> Undefined])
    /\ requests = <<params>>
    /\ responses = <<>>
    /\ log = <<CallEv(params)>>
    /\ lastOp = "constructor"

Constructed(i, o, a) ==
    /\ impl = i
    /\ options = o
    /\ listObjectsV2args = Merge(defaultListObjectsV2Options, a)
    /\ lastResponse = Undefined
    /\ currentIndex = Undefined
    /\ stopped = TRUE
    /\ pc = "none"
    /\ params = Undefined
    /\ requests = <<>>
    /\ responses = <<>>
    /\ log = <<>>
    /\ lastOp = "constructor"

\* src/src/index.ts: no options argument.
Init == \E a \in CallerArgs : Constructed("index", EmptyObject, a)

\* src/src/index.ts, constructed as in the tests without extra arguments.
InitDefault == Constructed("index", EmptyObject, EmptyObject)

\* src/unnamed/part_000: options, then the extra listing arguments.
InitAlt ==
    \E o \in {EmptyObject, [fullMetadata |-> TRUE]} :
        Constructed("part_000", o, EmptyObject)

(***************************************************************************)
(* _loadNextPage                                                           *)
(***************************************************************************)
\* Faulty variant: the token of the held response is never sent.
ContinuationTokenNone(resp) == Undefined

\* ContinuationToken: this._lastResponse ? ....NextContinuationToken : undefined
ContinuationTokenOf(resp) ==
    IF resp # Undefined THEN resp.NextContinuationToken ELSE Undefined

currentParams ==
    [Bucket |-> bucket,
     Prefix |-> bucketPrefix,
     ContinuationToken |-> ContinuationTokenOf(lastResponse)]

\* Faulty variant: the caller's extra arguments override the pagination fields.
BuildParamsArgsWin == Merge(currentParams, listObjectsV2args)

\* Object.assign({}, this._listObjectsV2args, currentParams)
BuildParams == Merge(listObjectsV2args, currentParams)

(***************************************************************************)
(* _startRead                                                              *)
(***************************************************************************)
\* Faulty variant: the next page is fetched one entry early.
NeedPageEarly ==
    IF lastResponse = Undefined THEN TRUE
    ELSE currentIndex.v + 1 >= Len(lastResponse.Contents)

\* The while loop's first test: no page held, or the held page used up.
NeedPage ==
    IF lastResponse = Undefined THEN TRUE
    ELSE currentIndex.v >= Len(lastResponse.Contents)

\* Faulty variant: no held page counts as the last one.
IsOverNever == FALSE

\* Faulty variant: any held page counts as the last one.
IsOverAnyPage == lastResponse # Undefined

\* The nested test: the held page is the last one.
IsOver == IF lastResponse # Undefined THEN ~lastResponse.IsTruncated ELSE FALSE

\* this._lastResponse.Contents[i], undefined past the end of the array.
EntryAt(resp, i) ==
    IF i + 1 \in 1..Len(resp.Contents) THEN resp.Contents[i + 1] ELSE Undefined

\* Faulty variant: the cursor advances by two.
NextIndexSkip(i) == i + 2

\* this._currentIndex++
NextIndex(i) == i + 1

\* metadata.Key
KeyOf(metadata) == metadata.Key

\* Faulty variant: the key is pushed whatever the class and the option.
ChunkKeyOnly(metadata) == IF metadata = Undefined THEN metadata ELSE KeyOf(metadata)

\* The value handed to push for a present entry.
ChunkToPush(metadata) ==
    IF impl = "index" THEN metadata
    ELSE IF fullMetadata THEN metadata ELSE KeyOf(metadata)

\* Reading .Key of an absent entry throws (part_000 in key mode only).
Throws(metadata) ==
    impl = "part_000" /\ ~fullMetadata /\ metadata = Undefined

\* index.ts pushes only when chunkToPush != null; part_000 always pushes.
Pushes(metadata) == impl = "part_000" \/ metadata # Undefined

\* Faulty variant: the groupings are notified last to first.
PrefixEventsReversed(resp) ==
    IF impl = "index" /\ resp.CommonPrefixes # Undefined
    THEN LET n == Len(resp.CommonPrefixes.v)
         IN [i \in 1..n |-> PrefixEv(resp.CommonPrefixes.v[n + 1 - i].Prefix)]
    ELSE <<>>

\* for (const item of CommonPrefixes) this.emit('prefix', item.Prefix)
PrefixEvents(resp) ==
    IF impl = "index" /\ resp.CommonPrefixes # Undefined
    THEN [i \in 1..Len(resp.CommonPrefixes.v) |-> PrefixEv(resp.CommonPrefixes.v[i].Prefix)]
    ELSE <<>>

\* Faulty variant: the catch clause emits a new error in place of the cause.
CaughtWrapped(err) == <<ErrorEv([t |-> "Error", message |-> "listing failed"])>>

\* What the catch clause emits.
Caught(err) == <<ErrorEv(err)>>

\* Faulty variant: the return value of push is ignored.
StopsOnNever(ret) == FALSE

\* !this.push(chunkToPush): the reader's buffer is full.
StopsOn(ret) == ~ret

\* Lines "const chunkToPush = ..." to "break": take the entry at the cursor,
\* advance the cursor, push, and stop when push returns false.  `before` are
\* the notifications emitted earlier in the same step.
PushChunk(before) ==
    LET metadata == EntryAt(lastResponse, currentIndex.v) IN
    /\ currentIndex' = Num(NextIndex(currentIndex.v))
    /\ IF Throws(metadata)
       THEN /\ log' = before \o Caught(TypeError)
            /\ pc' = "none"
            /\ stopped' = stopped
       ELSE IF ~Pushes(metadata)
       THEN /\ log' = before
            /\ pc' = "loop"
            /\ stopped' = stopped
       ELSE \E ret \in BOOLEAN :
            IF StopsOn(ret)
            THEN /\ log' = before \o <<PushEv(ChunkToPush(metadata), ret), Stopped>>
                 /\ pc' = "none"
                 /\ stopped' = TRUE
            ELSE /\ log' = Append(before, PushEv(ChunkToPush(metadata), ret))
                 /\ pc' = "loop"
                 /\ stopped' = stopped

\* Faulty variant: _read restarts the loop unless a listing call is in flight.
ReadGuardNoCall == pc # "await"

\* Faulty variant: _read restarts the loop whenever no frame is running.
ReadGuardIdle == pc = "none"

\* Faulty variant: _read restarts the loop whatever the flag.
ReadGuardAlways == TRUE

\* Faulty variant: the guard of _read is inverted.
ReadGuardInverted == ~stopped

\* The guard of _read.
ReadGuard == stopped

\* _read(size): starts _startRead when stopped; _startRead runs up to the
\* top of its loop.
Read ==
    /\ lastOp' = "_read"
    /\ IF ReadGuard
       THEN /\ stopped' = FALSE
            /\ log' = Append(log, Restarted)
            /\ pc' = "loop"
            /\ UNCHANGED <<config, lastResponse, currentIndex, params, requests, responses>>
       ELSE UNCHANGED <<config, lastResponse, currentIndex, stopped, pc, params,
                        requests, responses, log>>

\* push(null) and return: the stream is over.
EndOfStream ==
    /\ pc = "loop"
    /\ NeedPage
    /\ IsOver
    /\ log' = Append(log, PushEv(Null, FALSE))
    /\ pc' = "none"
    /\ lastOp' = "_startRead"
    /\ UNCHANGED <<config, lastResponse, currentIndex, stopped, params, requests, responses>>

\* await this._loadNextPage(): the call is issued and the loop suspends.
LoadNextPage ==
    /\ pc = "loop"
    /\ NeedPage
    /\ ~IsOver
    /\ params' = BuildParams
    /\ requests' = Append(requests, BuildParams)
    /\ log' = Append(log, CallEv(BuildParams))
    /\ pc' = "await"
    /\ lastOp' = "_loadNextPage"
    /\ UNCHANGED <<config, lastResponse, currentIndex, stopped, responses>>

\* An iteration that needs no page.
EmitNext ==
    /\ pc = "loop"
    /\ ~NeedPage
    /\ PushChunk(log)
    /\ lastOp' = "_startRead"
    /\ UNCHANGED <<config, lastResponse, params, requests, responses>>

\* The provider's callback with data: the page replaces the held one.
CallbackData ==
    /\ pc = "await"
    /\ \E data \in NextPages :
        /\ lastResponse' = data
        /\ responses' = Append(responses, data)
        /\ log' = Append(log, PageEv(params, data))
    /\ currentIndex' = Num(0)
    /\ pc' = "resumed"
    /\ lastOp' = "callback"
    /\ UNCHANGED <<config, stopped, params, requests>>

\* Faulty variant: a failed call also drops the held response and the index.
CallbackErrorResets ==
    /\ pc = "await"
    /\ log' = log \o Caught(SomeError)
    /\ lastResponse' = Undefined
    /\ currentIndex' = Undefined
    /\ pc' = "none"
    /\ lastOp' = "callback"
    /\ UNCHANGED <<config, stopped, params, requests, responses>>

\* The provider's callback with an error: reject, caught by _startRead.
CallbackError ==
    /\ pc = "await"
    /\ log' = log \o Caught(SomeError)
    /\ pc' = "none"
    /\ lastOp' = "callback"
    /\ UNCHANGED <<config, lastResponse, currentIndex, stopped, params, requests, responses>>

\* _startRead resumes after the await: 'prefix' notifications, then the
\* first entry of the new page.
Resume ==
    /\ pc = "resumed"
    /\ PushChunk(log \o PrefixEvents(lastResponse))
    /\ lastOp' = "_startRead"
    /\ UNCHANGED <<config, lastResponse, params, requests, responses>>

Next ==
    \/ Read
    \/ EndOfStream
    \/ LoadNextPage
    \/ EmitNext
    \/ CallbackData
    \/ CallbackError
    \/ Resume

Spec == Init /\ [][Next]_vars

SpecAlt == InitAlt /\ [][Next]_vars


\* The consumer's pull that finds the stream stopped.
Pull == Read /\ stopped

\* A step of the running _startRead frame or of the listing call it awaits.
\* At most one of these is enabled in a state (they are keyed on pc).
Run ==
    \/ EndOfStream
    \/ LoadNextPage
    \/ EmitNext
    \/ CallbackData
    \/ CallbackError
    \/ Resume

\* The event loop runs every continuation that is ready and every listing
\* call in flight completes (WF on Run); the consumer pulls whenever the
\* stream is stopped (WF on Pull).
\* A call of _read that finds the stream running changes nothing (the
\* guard of _read); Step leaves those calls out.
Step == Pull \/ Run

\* Both class files, each constructed without extra listing arguments.
SpecBoth == (InitDefault \/ InitAlt) /\ [][Step]_vars

LiveSpec ==
    /\ InitDefault
    /\ [][Step]_vars
    /\ WF_vars(Pull)
    /\ WF_vars(Run)

\* src/src/index.ts constructed without extra listing arguments; the calls
\* of _read that change nothing are left out.
SpecDefault == InitDefault /\ [][Step]_vars

\* src/src/index.ts with and without extra listing arguments; the calls of
\* _read that change nothing are left out.
SpecArgs == Init /\ [][Step]_vars

(***************************************************************************)
(* Reading the log.                                                        *)
(***************************************************************************)
IsEnd(e) == IF e.ev = "push" THEN e.chunk = Null ELSE FALSE

IsChunk(e) == IF e.ev = "push" THEN e.chunk # Null ELSE FALSE

IsPaused(e) == IF IsChunk(e) THEN ~e.ret ELSE FALSE

IsError(e) == e.ev = "error"

ChunkPushes == SelectSeq(log, IsChunk)

\* The values pushed so far, in order.
Chunks == LET pushes == ChunkPushes IN [i \in 1..Len(pushes) |-> pushes[i].chunk]

EndCount == Cardinality({i \in 1..Len(log) : IsEnd(log[i])})

EndSignalled == EndCount > 0

Failed == \E i \in 1..Len(log) : IsError(log[i])

IsPresent(c) == c # Undefined

ItemsOf(page) == SelectSeq(page.Contents, IsPresent)

\* The items of the pages in page order and in-page order.
RECURSIVE ConcatItems(_)
ConcatItems(pages) ==
    IF pages = <<>> THEN <<>> ELSE ItemsOf(pages[1]) \o ConcatItems(Tail(pages))

IsPrefixOf(a, b) == Len(a) <= Len(b) /\ a = SubSeq(b, 1, Len(a))

(***************************************************************************)
(* C1.  Completeness and order: once end-of-sequence has been signalled,   *)
(* the values pushed are exactly the items of the pages the provider       *)
(* returned, in page order and in-page order, none repeated and none       *)
(* left out, whatever the pattern of pauses was.                           *)
(***************************************************************************)
C1_Completeness == EndSignalled => Chunks = ConcatItems(responses)

\* A run over MaxPages pages that paused, pushed at least three items and ended.
C1_Witness ==
    /\ EndSignalled
    /\ Len(responses) = MaxPages
    /\ Len(Chunks) >= 3
    /\ \E i \in 1..Len(log) : IsPaused(log[i])

(***************************************************************************)
(* C2.  Pagination chaining: the first listing request carries no          *)
(* continuation token, and request i+1 carries exactly the                 *)
(* NextContinuationToken of response i.                                    *)
(***************************************************************************)
C2_TokenChaining ==
    \A i \in 1..Len(requests) :
        requests[i].ContinuationToken =
            IF i = 1 THEN Undefined ELSE responses[i - 1].NextContinuationToken

\* A second request was sent, by a stream whose caller named a token of
\* its own in the extra arguments.
C2_Witness ==
    /\ Len(requests) >= 2
    /\ requests[2].ContinuationToken # Undefined
    /\ "ContinuationToken" \in DOMAIN listObjectsV2args

(***************************************************************************)
(* C3.  Backpressure: a push that returns false is followed at once by     *)
(* 'stopped' and the stream is stopped with no loop running; nothing is    *)
(* produced after 'stopped' until a pull, whose first product is           *)
(* 'restarted'; and the values pushed are always a prefix of the items of  *)
(* the pages in order, so emission resumes at the next item with no        *)
(* repeat and no skip, across page boundaries too.                         *)
(***************************************************************************)
C3_Backpressure ==
    /\ \A i \in 1..Len(log) :
          IsPaused(log[i]) =>
              /\ i + 1 <= Len(log)
              /\ log[i + 1] = Stopped
              /\ i + 2 <= Len(log) => log[i + 2] = Restarted
    /\ (log # <<>> /\ log[Len(log)] = Stopped) => (stopped /\ pc = "none")
    /\ LET pushed == Chunks
           items == ConcatItems(responses)
       IN IsPrefixOf(pushed, items)

\* The push of the last item of the first page returned false, and after
\* the next pull the first item of the second page was pushed.
C3_Witness ==
    /\ Len(responses) = 2
    /\ Len(ItemsOf(responses[1])) >= 1
    /\ Len(Chunks) = Len(ItemsOf(responses[1])) + 1
    /\ ~ChunkPushes[Len(ItemsOf(responses[1]))].ret

(***************************************************************************)
(* C4.  Error propagation: when the m-th listing call fails, the items     *)
(* pushed are exactly those of pages 1..m-1, the error notification        *)
(* carries the provider's error, it is the only one, and it is the last    *)
(* thing the stream ever produces (no notification, push, end-of-sequence  *)
(* or listing call after it).                                              *)
(***************************************************************************)
C4_ErrorPropagation ==
    \A i \in 1..Len(log) :
        IsError(log[i]) =>
            /\ i = Len(log)
            /\ log[i].err = SomeError
            /\ Len(requests) = Len(responses) + 1
            /\ Chunks = ConcatItems(responses)
            /\ ~EndSignalled

\* The second call failed after the items of the first page were pushed,
\* and the consumer has pulled since.
C4_Witness ==
    /\ Failed
    /\ Len(requests) = 2
    /\ Len(Chunks) >= 1
    /\ lastOp = "_read"

HeldLast == IF lastResponse # Undefined THEN ~lastResponse.IsTruncated ELSE FALSE

EndIsLast == log # <<>> /\ IsEnd(log[Len(log)])

(***************************************************************************)
(* C5.  Termination condition: end-of-sequence is signalled only when the  *)
(* page fetched last is not truncated, and then nothing more is produced   *)
(* and no call is made; and from some point on, a held page that is not    *)
(* truncated means end-of-sequence has been signalled (a non-truncated     *)
(* page stays the held page, so this says it leads to the end, given that  *)
(* the loop's steps are taken and the consumer pulls after a pause).       *)
(***************************************************************************)
C5_TerminationCondition ==
    /\ [](EndSignalled => (HeldLast /\ EndIsLast /\ Len(requests) = Len(responses)))
    /\ [](~HeldLast => ~EndSignalled)
    /\ <>[](HeldLast => EndSignalled)

\* The stream ended on the second page, after a truncated first page.
C5_Witness ==
    /\ EndSignalled
    /\ Len(responses) = 2
    /\ responses[1].IsTruncated
    /\ ~responses[2].IsTruncated

(***************************************************************************)
(* C6.  Ended and Failed are absorbing: once end-of-sequence has been      *)
(* signalled or an error notification emitted, the only steps left are     *)
(* pulls, and a pull starts no loop, calls nothing, produces nothing and   *)
(* leaves the held response, the cursor index and the stopped flag alone.  *)
(***************************************************************************)
C6_Absorbing ==
    [][(EndSignalled \/ Failed) =>
          /\ lastOp' = "_read"
          /\ UNCHANGED <<lastResponse, currentIndex, stopped, pc, params,
                         requests, responses, log>>]_vars

\* A pull was made after the end of a two-page run.
C6_Witness ==
    /\ EndSignalled
    /\ Len(responses) = 2
    /\ lastOp = "_read"

\* The value src/src/index.ts and part_000 push for a present item.
Emits(item) ==
    IF impl = "index" THEN item
    ELSE IF fullMetadata THEN item ELSE item.Key

PresentChunks == SelectSeq(Chunks, IsPresent)

C8_Termination ==
    /\ <>(EndSignalled \/ Failed)
    /\ [](EndCount <= 1)

\* End-of-sequence was signalled after a run with a pause.
C8_Witness ==
    /\ EndCount = 1
    /\ ~Failed
    /\ Len(responses) = MaxPages
    /\ \E i \in 1..Len(log) : log[i] = Stopped

FirstPageEmptyAndLast ==
    IF responses # <<>>
    THEN responses[1].Contents = <<>> /\ ~responses[1].IsTruncated
    ELSE FALSE

(***************************************************************************)
(* C9.  Empty bucket or prefix: when the first page has no items and is    *)
(* not truncated, the run makes one listing call, pushes no item, emits    *)
(* no error, and has signalled end-of-sequence when its loop is left.      *)
(***************************************************************************)
C9_EmptyBucket ==
    FirstPageEmptyAndLast =>
        /\ Len(requests) = 1
        /\ Chunks = <<>>
        /\ ~Failed
        /\ pc = "none" => EndSignalled

IsPage(e) == e.ev = "page"

IsCall(e) == e.ev = "listObjectsV2"

PageEvents == SelectSeq(log, IsPage)

CallEvents == SelectSeq(log, IsCall)

(***************************************************************************)
(* C10.  Every successful listing call produces exactly one 'page'         *)
(* notification carrying the request sent and the response received; at    *)
(* end-of-sequence the numbers of calls, of responses and of 'page'        *)
(* notifications are equal; and every response but the last received is    *)
(* truncated, so no call follows a non-truncated response.                 *)
(***************************************************************************)
C10_PageNotifications ==
    /\ LET pages == PageEvents IN
          /\ Len(pages) = Len(responses)
          /\ \A i \in 1..Len(pages) :
                pages[i].params = requests[i] /\ pages[i].data = responses[i]
    /\ LET calls == CallEvents IN
          /\ Len(calls) = Len(requests)
          /\ \A i \in 1..Len(calls) : calls[i].params = requests[i]
    /\ Len(requests) \in {Len(responses), Len(responses) + 1}
    /\ \A i \in 1..Len(responses) :
          ~responses[i].IsTruncated => (i = Len(responses) /\ Len(requests) = i)
    /\ EndSignalled => Len(requests) = Len(responses)

\* A two-page run has ended with two calls and two 'page' notifications.
C10_Witness ==
    /\ EndSignalled
    /\ Len(requests) = 2
    /\ Len(PageEvents) = 2

(***************************************************************************)
(* C11.  Whenever a response is held, the cursor index is in               *)
(* [0, length of the held response's Contents], also after a page with no  *)
(* entries was fetched and after the last entry of a page was passed.      *)
(***************************************************************************)
C11_IndexInRange ==
    lastResponse # Undefined =>
        currentIndex.v \in 0..Len(lastResponse.Contents)

\* The number of listing calls that were issued and have not completed.
Outstanding ==
    Len(requests) - Len(responses)
        - Cardinality({i \in 1..Len(log) : IsError(log[i])})

(***************************************************************************)
(* C12.  One loop, one call: a frame of _startRead exists only while the   *)
(* stream is not stopped, exactly one listing call is outstanding while    *)
(* the frame awaits and none otherwise, and a call of _read that finds a   *)
(* frame (running or awaiting the provider) starts nothing, calls          *)
(* nothing, produces nothing and leaves the cursor alone.                  *)
(***************************************************************************)
C12_SingleLoop ==
    /\ [](pc # "none" => ~stopped)
    /\ [](Outstanding = IF pc = "await" THEN 1 ELSE 0)
    /\ [][(lastOp' = "_read" /\ pc # "none") =>
             UNCHANGED <<lastResponse, currentIndex, stopped, pc, params,
                         requests, responses, log>>]_vars

\* _read was called while a listing call was in flight.
C12_Witness ==
    /\ lastOp = "_read"
    /\ pc = "await"
    /\ Outstanding = 1

(***************************************************************************)
(* C13.  A listing call is issued only by a stream that is not stopped,    *)
(* and only when no response is held or the cursor index has reached the   *)
(* end of the held response's Contents and that response is truncated; so  *)
(* never while an entry remains at or after the cursor.                    *)
(***************************************************************************)
C13_LazyFetch ==
    [][Len(requests') > Len(requests) =>
          /\ ~stopped
          /\ IF lastResponse = Undefined THEN TRUE
             ELSE /\ currentIndex.v >= Len(lastResponse.Contents)
                  /\ lastResponse.IsTruncated]_vars

\* The second call was issued with the cursor at the end of a truncated
\* page that had entries.
C13_Witness ==
    /\ lastOp = "_loadNextPage"
    /\ Len(requests) = 2
    /\ Len(lastResponse.Contents) >= 1
    /\ currentIndex.v = Len(lastResponse.Contents)

\* The number of common-prefix groupings of a response.
GroupingCount(d) ==
    IF d.CommonPrefixes = Undefined THEN 0 ELSE Len(d.CommonPrefixes.v)

\* The position of the last 'page' notification before position j (0: none).
PageBefore(j) ==
    LET ps == {i \in 1..(j - 1) : IsPage(log[i])}
    IN IF ps = {} THEN 0 ELSE CHOOSE i \in ps : \A k \in ps : k <= i

(***************************************************************************)
(* C14.  A listener of 'page' finds the new response held and the index    *)
(* at zero; whatever follows a 'page' notification starts with one         *)
(* 'prefix' notification per grouping of that response, in response        *)
(* order; every 'prefix' notification is one of these, so a response       *)
(* without groupings has none; every entry pushed after them and before    *)
(* the next 'page' is an entry of that response.                           *)
(***************************************************************************)
C14_PrefixNotifications ==
    LET n == Len(log) IN
    /\ \A i \in 1..n : IsPage(log[i]) =>
          LET d == log[i].data
              g == GroupingCount(d)
          IN /\ (i = n /\ lastOp = "callback") =>
                  (lastResponse = d /\ currentIndex = Num(0))
             /\ (i < n) =>
                  /\ n >= i + g
                  /\ \A k \in 1..g :
                        log[i + k] = [ev |-> "prefix",
                                      prefix |-> d.CommonPrefixes.v[k].Prefix]
    /\ \A j \in 1..n :
          LET i == PageBefore(j) IN
          /\ log[j].ev = "prefix" =>
                (i > 0 /\ j - i <= GroupingCount(log[i].data))
          /\ IsChunk(log[j]) =>
                /\ i > 0
                /\ j > i + GroupingCount(log[i].data)
                /\ \E k \in 1..Len(log[i].data.Contents) :
                      log[i].data.Contents[k] = log[j].chunk

\* A page with several groupings and an entry was fetched; its 'prefix'
\* notifications and then its first entry were emitted.
C14_Witness ==
    \E i \in 1..Len(log) :
        /\ IsPage(log[i])
        /\ GroupingCount(log[i].data) >= 2
        /\ Len(log) > i + GroupingCount(log[i].data)
        /\ IsChunk(log[i + GroupingCount(log[i].data) + 1])

(***************************************************************************)
(* C15.  When the entry of the held response at the cursor is nullish or   *)
(* absent, the iteration that takes it advances the index by one, pushes   *)
(* nothing, emits no 'error' and no 'stopped' (only the 'prefix'           *)
(* notifications of a page just fetched), and the loop goes on.            *)
(***************************************************************************)
C15_NullishSkipped ==
    [][(/\ pc \in {"loop", "resumed"}
        /\ lastOp' = "_startRead"
        /\ currentIndex' # currentIndex
        /\ EntryAt(lastResponse, currentIndex.v) = Undefined)
       => /\ currentIndex' = Num(currentIndex.v + 1)
          /\ Len(log') >= Len(log)
          /\ SubSeq(log', 1, Len(log)) = log
          /\ \A j \in (Len(log) + 1)..Len(log') : log'[j].ev = "prefix"
          /\ pc' = "loop"
          /\ stopped' = stopped]_vars

(***************************************************************************)
(* C16.  A stream on which nothing was called since its construction is    *)
(* stopped, holds no response and no index, and has issued no listing      *)
(* call, pushed nothing and notified nothing; whatever a stream does       *)
(* comes after the 'restarted' of its first pull.                          *)
(***************************************************************************)
C16_LazyConstruction ==
    /\ lastOp = "constructor" =>
          /\ stopped
          /\ pc = "none"
          /\ lastResponse = Undefined
          /\ currentIndex = Undefined
          /\ requests = <<>>
          /\ responses = <<>>
          /\ log = <<>>
    /\ requests # <<>> => log # <<>>
    /\ log # <<>> => log[1] = Restarted

\* A stream just constructed with extra listing arguments.
C16_Witness ==
    /\ lastOp = "constructor"
    /\ stopped
    /\ listObjectsV2args.MaxKeys = 2

\* The continuation token the k-th request has to carry.
TokenFor(k) ==
    IF k = 1 THEN Undefined ELSE responses[k - 1].NextContinuationToken

(***************************************************************************)
(* C17.  For the extra arguments a the stream was constructed with, every  *)
(* request has exactly the fields of the defaults, of a and of the         *)
(* pagination fields; Bucket and Prefix are the constructed ones and       *)
(* ContinuationToken is the stream's own (undefined on the first call,     *)
(* then the token of the response before) also when a names them; MaxKeys  *)
(* is a's when a has one and 1000 otherwise; any other field is a's.       *)
(***************************************************************************)
C17_RequestMerge ==
    \E a \in CallerArgs :
        /\ listObjectsV2args = Merge(defaultListObjectsV2Options, a)
        /\ \A k \in 1..Len(requests) :
              LET r == requests[k] IN
              /\ DOMAIN r = {"MaxKeys"} \cup DOMAIN a
                               \cup {"Bucket", "Prefix", "ContinuationToken"}
              /\ r.Bucket = bucket
              /\ r.Prefix = bucketPrefix
              /\ r.ContinuationToken = TokenFor(k)
              /\ r.MaxKeys = IF "MaxKeys" \in DOMAIN a THEN a.MaxKeys ELSE 1000
              /\ \A f \in DOMAIN a \ {"MaxKeys", "Bucket", "Prefix", "ContinuationToken"} :
                    r[f] = a[f]

\* Two requests of a stream whose caller named MaxKeys, Bucket, Prefix and
\* ContinuationToken.
C17_Witness ==
    /\ Len(requests) = 2
    /\ listObjectsV2args.MaxKeys = 2
    /\ listObjectsV2args.Bucket = "other-bucket"
    /\ requests[2].Bucket = bucket
    /\ requests[2].MaxKeys = 2

IsRunNote(e) == e.ev \in {"restarted", "stopped"}

\* The 'restarted' and 'stopped' notifications of the run, in order.
RunNotes == SelectSeq(log, IsRunNote)

(***************************************************************************)
(* C18.  The 'restarted' and 'stopped' notifications alternate, starting   *)
(* with 'restarted', and the stream is stopped exactly when there are as   *)
(* many of one as of the other (else one more 'restarted'); a 'restarted'  *)
(* is added only by a _read that finds the stream stopped, a 'stopped'     *)
(* only by a step of a stream that is not stopped.                         *)
(***************************************************************************)
C18_Alternation ==
    /\ [](LET rs == RunNotes IN
          /\ \A i \in 1..Len(rs) :
                rs[i] = IF i % 2 = 1 THEN Restarted ELSE Stopped
          /\ stopped <=> (Len(rs) % 2 = 0))
    /\ [][LET rs == RunNotes
              rs2 == SelectSeq(log', IsRunNote)
          IN Len(rs2) > Len(rs) =>
                /\ Len(rs2) = Len(rs) + 1
                /\ rs2[Len(rs2)] = Restarted => (stopped /\ lastOp' = "_read")
                /\ rs2[Len(rs2)] = Stopped => (~stopped /\ lastOp' = "_startRead")]_vars

\* Stopped twice; the third 'restarted' was just emitted by _read.
C18_Witness ==
    /\ Len(RunNotes) = 5
    /\ lastOp = "_read"
    /\ ~stopped

(***************************************************************************)
(* C19.  The step in which a listing call fails adds the 'error'           *)
(* notification and nothing else, and leaves the held response and the     *)
(* index as they were.  The held response changes only in the step of a    *)
(* successful call, to the response received, with the index set to 0;     *)
(* the index changes otherwise only in an iteration of _startRead, by      *)
(* plus one, with the held response unchanged.                             *)
(***************************************************************************)
C19_FailureFrame ==
    [][LET success == /\ pc = "await"
                      /\ responses' = Append(responses, lastResponse')
                      /\ currentIndex' = Num(0)
       IN /\ (pc = "await" /\ pc' = "none") =>
                /\ responses' = responses
                /\ lastResponse' = lastResponse
                /\ currentIndex' = currentIndex
                /\ Len(log') = Len(log) + 1
                /\ SubSeq(log', 1, Len(log)) = log
                /\ IsError(log'[Len(log')])
          /\ (lastResponse' # lastResponse \/ responses' # responses) => success
          /\ currentIndex' # currentIndex =>
                \/ success
                \/ /\ lastResponse' = lastResponse
                   /\ lastResponse # Undefined
                   /\ currentIndex' = Num(currentIndex.v + 1)
                   /\ lastOp' = "_startRead"]_vars

\* The second listing call failed: the first response is still held, with
\* the index its last iteration left.
C19_Witness ==
    /\ lastOp = "callback"
    /\ log # <<>>
    /\ IsError(log[Len(log)])
    /\ Len(requests) = 2
    /\ lastResponse = responses[1]
    /\ currentIndex.v >= 1

\* The push at position i of the log was answered with false and gave the
\* last entry of a response that is not truncated.
PausedOnLastItem(i) ==
    IF ~IsPaused(log[i]) \/ PageBefore(i) = 0 THEN FALSE
    ELSE LET d == log[PageBefore(i)].data
             items == ItemsOf(d)
         IN /\ ~d.IsTruncated
            /\ items # <<>>
            /\ items[Len(items)] = log[i].chunk

(***************************************************************************)
(* C20.  After a push of the last entry of a non-truncated response that   *)
(* was answered with false, the stream emits 'stopped' and is stopped      *)
(* with no end-of-sequence signalled; all it does from then on is the      *)
(* 'restarted' of the next pull followed by the end-of-sequence: no        *)
(* listing call and no entry.                                              *)
(***************************************************************************)
C20_PauseAtEnd ==
    \A i \in 1..Len(log) : PausedOnLastItem(i) =>
        LET rest == SubSeq(log, i + 1, Len(log)) IN
        /\ rest # <<>>
        /\ IsPrefixOf(rest, <<Stopped, Restarted, PushEv(Null, FALSE)>>)
        /\ Len(rest) = 1 => (stopped /\ pc = "none" /\ ~EndSignalled)
        /\ Len(rest) = 2 => (~stopped /\ pc = "loop" /\ ~EndSignalled)
        /\ Len(requests) = Len(responses)

\* The pull after such a pause has emitted 'restarted' and the
\* end-of-sequence.
C20_Witness ==
    \E i \in 1..Len(log) :
        /\ PausedOnLastItem(i)
        /\ Len(log) = i + 3
        /\ IsEnd(log[Len(log)])
        /\ log[Len(log) - 1] = Restarted

====
